---- MODULE Spec2Model ----
(***************************************************************************)
(* habitfund-data: update_contributions.py.                                *)
(*                                                                         *)
(* One run of main(): load the sheet, group its rows by Country, resolve   *)
(* each group's country (exception table, then pycountry, then fallback    *)
(* with a Slack warning), write one JSON file per group, write the index,  *)
(* send the summary.                                                       *)
(*                                                                         *)
(* A Python str is modelled as a sequence of one-character strings, so     *)
(* that lower(), upper(), replace(), split() and strip() are computed and  *)
(* not assumed.  Paths and URLs, which the program only builds and never   *)
(* takes apart, are rendered as strings by Str.                            *)
(***************************************************************************)
EXTENDS Integers, Sequences, FiniteSets, TLC

\* Largest number of rows of a sheet.
MaxRows == 3

----------------------------------------------------------------------------
(* str primitives                                                           *)

\* The letters E-acute and e-acute (U+00C9, U+00E9) are written "E'" and
\* "e'": TLC keeps only ASCII in the strings of the states it stores.

\* The characters str.lower() changes.
LowerOf ==
    ("A" :> "a") @@ ("B" :> "b") @@ ("C" :> "c") @@ ("D" :> "d") @@
    ("E" :> "e") @@ ("F" :> "f") @@ ("G" :> "g") @@ ("H" :> "h") @@
    ("I" :> "i") @@ ("J" :> "j") @@ ("K" :> "k") @@ ("L" :> "l") @@
    ("M" :> "m") @@ ("N" :> "n") @@ ("O" :> "o") @@ ("P" :> "p") @@
    ("Q" :> "q") @@ ("R" :> "r") @@ ("S" :> "s") @@ ("T" :> "t") @@
    ("U" :> "u") @@ ("V" :> "v") @@ ("W" :> "w") @@ ("X" :> "x") @@
    ("Y" :> "y") @@ ("Z" :> "z") @@ ("E'" :> "e'")

\* The characters str.upper() changes.
UpperOf ==
    ("a" :> "A") @@ ("b" :> "B") @@ ("c" :> "C") @@ ("d" :> "D") @@
    ("e" :> "E") @@ ("f" :> "F") @@ ("g" :> "G") @@ ("h" :> "H") @@
    ("i" :> "I") @@ ("j" :> "J") @@ ("k" :> "K") @@ ("l" :> "L") @@
    ("m" :> "M") @@ ("n" :> "N") @@ ("o" :> "O") @@ ("p" :> "P") @@
    ("q" :> "Q") @@ ("r" :> "R") @@ ("s" :> "S") @@ ("t" :> "T") @@
    ("u" :> "U") @@ ("v" :> "V") @@ ("w" :> "W") @@ ("x" :> "X") @@
    ("y" :> "Y") @@ ("z" :> "Z") @@ ("e'" :> "E'")

\* ord(c), which orders str comparison.
CodePoint ==
    (" " :> 32) @@ ("," :> 44) @@ ("0" :> 48) @@ ("1" :> 49) @@
    ("2" :> 50) @@ ("3" :> 51) @@ ("4" :> 52) @@ ("5" :> 53) @@
    ("6" :> 54) @@ ("7" :> 55) @@ ("8" :> 56) @@ ("9" :> 57) @@
    ("A" :> 65) @@ ("B" :> 66) @@ ("C" :> 67) @@ ("D" :> 68) @@
    ("E" :> 69) @@ ("F" :> 70) @@ ("G" :> 71) @@ ("H" :> 72) @@
    ("I" :> 73) @@ ("J" :> 74) @@ ("K" :> 75) @@ ("L" :> 76) @@
    ("M" :> 77) @@ ("N" :> 78) @@ ("O" :> 79) @@ ("P" :> 80) @@
    ("Q" :> 81) @@ ("R" :> 82) @@ ("S" :> 83) @@ ("T" :> 84) @@
    ("U" :> 85) @@ ("V" :> 86) @@ ("W" :> 87) @@ ("X" :> 88) @@
    ("Y" :> 89) @@ ("Z" :> 90) @@ ("_" :> 95) @@ ("a" :> 97) @@
    ("b" :> 98) @@ ("c" :> 99) @@ ("d" :> 100) @@ ("e" :> 101) @@
    ("f" :> 102) @@ ("g" :> 103) @@ ("h" :> 104) @@ ("i" :> 105) @@
    ("j" :> 106) @@ ("k" :> 107) @@ ("l" :> 108) @@ ("m" :> 109) @@
    ("n" :> 110) @@ ("o" :> 111) @@ ("p" :> 112) @@ ("q" :> 113) @@
    ("r" :> 114) @@ ("s" :> 115) @@ ("t" :> 116) @@ ("u" :> 117) @@
    ("v" :> 118) @@ ("w" :> 119) @@ ("x" :> 120) @@ ("y" :> 121) @@
    ("z" :> 122) @@ ("E'" :> 201) @@ ("e'" :> 233)

Digits == << "0", "1", "2", "3", "4", "5", "6", "7", "8", "9" >>

Occurs(seq, c) == \E i \in 1..Len(seq) : seq[i] = c

lower_char(c) == IF c \in DOMAIN LowerOf THEN LowerOf[c] ELSE c

upper_char(c) == IF c \in DOMAIN UpperOf THEN UpperOf[c] ELSE c

\* str.lower()
lower(s) == [i \in 1..Len(s) |-> lower_char(s[i])]

\* str.upper()
upper(s) == [i \in 1..Len(s) |-> upper_char(s[i])]

\* str.replace(old, new) for one-character old and new
replace(s, old, new) == [i \in 1..Len(s) |-> IF s[i] = old THEN new ELSE s[i]]

RECURSIVE lstrip(_)
lstrip(s) == IF s # << >> /\ Head(s) = " " THEN lstrip(Tail(s)) ELSE s

RECURSIVE rstrip(_)
rstrip(s) ==
    IF s # << >> /\ s[Len(s)] = " " THEN rstrip(SubSeq(s, 1, Len(s) - 1)) ELSE s

\* str.strip()
strip(s) == rstrip(lstrip(s))

\* str.split(sep) for a one-character sep: always at least one element.
RECURSIVE split(_, _)
split(s, sep) ==
    IF ~Occurs(s, sep)
    THEN << s >>
    ELSE LET i == CHOOSE k \in 1..Len(s) :
                      s[k] = sep /\ \A j \in 1..(k - 1) : s[j] # sep
         IN  << SubSeq(s, 1, i - 1) >> \o split(SubSeq(s, i + 1, Len(s)), sep)

\* The str as text.
RECURSIVE Str(_)
Str(s) == IF s = << >> THEN "" ELSE Head(s) \o Str(Tail(s))

\* a < b in str comparison
RECURSIVE StrLess(_, _)
StrLess(a, b) ==
    IF b = << >> THEN FALSE
    ELSE IF a = << >> THEN TRUE
    ELSE IF Head(a) = Head(b) THEN StrLess(Tail(a), Tail(b))
    ELSE CodePoint[Head(a)] < CodePoint[Head(b)]

----------------------------------------------------------------------------
(* The strings of the program and of the sheets                             *)

S_SouthKorea == << "S", "o", "u", "t", "h", " ", "K", "o", "r", "e", "a" >>

S_UnitedStates == << "U", "n", "i", "t", "e", "d", " ", "S", "t", "a", "t", "e", "s" >>

S_Global == << "G", "l", "o", "b", "a", "l" >>

S_Russia == << "R", "u", "s", "s", "i", "a" >>

S_kr == << "k", "r" >>

S_us == << "u", "s" >>

S_global == << "g", "l", "o", "b", "a", "l" >>

S_ru == << "r", "u" >>

S_USA == << "U", "S", "A" >>

S_wonderland == << "w", "o", "n", "d", "e", "r", "l", "a", "n", "d" >>

S_NewLand == << "N", "e", "w", " ", "L", "a", "n", "d" >>

S_new_land == << "n", "e", "w", "_", "l", "a", "n", "d" >>

S_PaddedAccent == << " ", "E'" >>

S_index == << "i", "n", "d", "e", "x" >>

S_US == << "U", "S" >>

S_KR == << "K", "R" >>

S_KOR == << "K", "O", "R" >>

S_RU == << "R", "U" >>

S_RUS == << "R", "U", "S" >>

S_KoreaRepublicOf ==
    << "K", "o", "r", "e", "a", ",", " ", "R", "e", "p", "u", "b", "l", "i", "c",
       " ", "o", "f" >>

S_RussianFederation ==
    << "R", "u", "s", "s", "i", "a", "n", " ", "F", "e", "d", "e", "r", "a", "t",
       "i", "o", "n" >>

S_UnitedStatesOfAmerica ==
    << "U", "n", "i", "t", "e", "d", " ", "S", "t", "a", "t", "e", "s", " ", "o",
       "f", " ", "A", "m", "e", "r", "i", "c", "a" >>

T_abc == << "a", ",", " ", "b", ",", "c" >>

T_blank == << " " >>

T_one == << "h", "e", "a", "l", "t", "h" >>

\* An empty cell of the sheet as read_csv yields it (a float NaN, no str).
NaN == << "NaN" >>

----------------------------------------------------------------------------
(* pycountry                                                                *)

\* The records of pycountry's database that the sheets of this model touch.
Countries ==
    { [alpha_2 |-> S_US, alpha_3 |-> S_USA, name |-> S_UnitedStates,
       other_names |-> {S_UnitedStatesOfAmerica}],
      [alpha_2 |-> S_KR, alpha_3 |-> S_KOR, name |-> S_KoreaRepublicOf,
       other_names |-> {S_SouthKorea}],
      [alpha_2 |-> S_RU, alpha_3 |-> S_RUS, name |-> S_RussianFederation,
       other_names |-> {}] }

NoCountry == [alpha_2 |-> << >>, alpha_3 |-> << >>, name |-> << >>, other_names |-> {}]

\* The database's indices: every code and name, lowercased, with its record.
LookupIndex ==
    UNION { { << lower(k), c >> : k \in {c.alpha_2, c.alpha_3, c.name} \cup c.other_names } :
            c \in Countries }

\* The records one of whose codes or names is `name`, case ignored.
Matching(name) == { e[2] : e \in { x \in LookupIndex : x[1] = lower(name) } }

\* pycountry.countries.lookup(name).  `fault`: the library fails in some
\* other way than by not finding the name.
pycountry_lookup(name, fault) ==
    IF fault
    THEN [error |-> "Exception", country |-> NoCountry]
    ELSE IF Matching(name) = {}
    THEN [error |-> "LookupError", country |-> NoCountry]
    ELSE [error |-> "", country |-> CHOOSE c \in Matching(name) : TRUE]

----------------------------------------------------------------------------
(* send_slack_message                                                       *)

VARIABLES
    webhook,        \* SLACK_WEBHOOK_URL is set
    library_fault,  \* pycountry fails on every lookup (its data does not load)
    sheet,          \* the rows of the remote sheet
    columns,        \* the columns of the remote sheet; the cells of a column
                    \* it lacks are never read
    pc,             \* where main() is
    df,             \* the loaded rows
    todo,           \* the groups of the loop still to come, in order
    index_data,     \* main's index_data
    dir,            \* the directory contributors/ exists
    fs,             \* the files: path -> JSON array
    writes,         \* the files this run has written, in order
    notified,       \* the messages send_slack_message was called with
    httpRequests,   \* the HTTP requests attempted
    lastStatus,     \* how the latest send_slack_message call ended
    lastCall        \* the latest get_country_info call and what it returned

vars ==
    << webhook, library_fault, sheet, columns, pc, df, todo, index_data, dir, fs, writes,
       notified, httpRequests, lastStatus, lastCall >>

\* What urlopen may do: answer 200, answer another status, raise.
Transports == {"200", "500", "URLError"}

\* A send_slack_message without its try.
caught_nothing_in_send(error) == FALSE

\* `except Exception as e` of send_slack_message
caught_in_send(error) == TRUE

\* send_slack_message(message) with the transport behaving as `transport`:
\* whether a request was attempted, what was logged, whether it raised.
send_slack_message(message, transport) ==
    IF ~webhook
    THEN [attempted |-> FALSE, status |-> "skipped", raised |-> FALSE]
    ELSE IF transport = "200"
    THEN [attempted |-> TRUE, status |-> "sent", raised |-> FALSE]
    ELSE IF transport = "500"
    THEN [attempted |-> TRUE, status |-> "failed", raised |-> FALSE]
    ELSE [attempted |-> TRUE, status |-> "error",
          raised |-> ~caught_in_send(transport)]

----------------------------------------------------------------------------
(* get_country_info                                                         *)

exceptions ==
    (S_SouthKorea :> << S_kr, S_SouthKorea >>)
    @@ (S_UnitedStates :> << S_us, S_UnitedStates >>)
    @@ (S_Global :> << S_global, S_Global >>)
    @@ (S_Russia :> << S_ru, S_Russia >>)

\* A resolver that asks pycountry first and the exception table after it.
in_exceptions_after_lookup(name) ==
    name \in DOMAIN exceptions /\ Matching(name) = {}

\* `name in exceptions`
in_exceptions(name) == name \in DOMAIN exceptions

\* A handler written `except LookupError:`.
caught_lookup_error_only(error) == error = "LookupError"

\* the bare `except:` of get_country_info
caught_in_lookup(error) == TRUE

\* A fallback that forgets the replace.
fallback_code_keeps_spaces(name) == lower(name)

\* code = name.lower().replace(" ", "_")
fallback_code(name) == replace(lower(name), " ", "_")

UN_FLAG == "https://flagcdn.com/w40/un.png"

flag_url_of(code) ==
    IF code = S_global THEN UN_FLAG
    ELSE "https://flagcdn.com/w40/" \o Str(code) \o ".png"

\* get_country_info(name): (code, full_name, flag_url), with the number of
\* pycountry lookups made, the messages handed to send_slack_message, how
\* those calls ended and whether an exception left the function.
get_country_info(name, fault, transport) ==
    IF in_exceptions(name)
    THEN [code |-> exceptions[name][1], full_name |-> exceptions[name][2],
          flag_url |-> flag_url_of(exceptions[name][1]),
          lookups |-> 0, warnings |-> << >>, sends |-> << >>, raised |-> FALSE]
    ELSE LET found == pycountry_lookup(name, fault)
         IN  IF found.error = ""
             THEN [code |-> lower(found.country.alpha_2),
                   full_name |-> found.country.name,
                   flag_url |-> flag_url_of(lower(found.country.alpha_2)),
                   lookups |-> 1, warnings |-> << >>, sends |-> << >>,
                   raised |-> FALSE]
             ELSE IF caught_in_lookup(found.error)
             THEN LET code == fallback_code(name)
                      warning_msg ==
                          [kind |-> "warning", name |-> name, code |-> code]
                      sent == send_slack_message(warning_msg, transport)
                  IN  [code |-> code, full_name |-> name,
                       flag_url |-> flag_url_of(code),
                       lookups |-> 1, warnings |-> << warning_msg >>,
                       sends |-> << sent >>, raised |-> sent.raised]
             ELSE [code |-> << >>, full_name |-> << >>, flag_url |-> "",
                   lookups |-> 1, warnings |-> << >>, sends |-> << >>,
                   raised |-> TRUE]

----------------------------------------------------------------------------
(* The record builder                                                       *)

\* n in decimal
RECURSIVE decimal(_)
decimal(n) ==
    IF n < 10 THEN << Digits[n + 1] >>
    ELSE decimal(n \div 10) \o << Digits[(n % 10) + 1] >>

\* f"{n:03d}"
RECURSIVE zero_pad(_, _)
zero_pad(s, width) == IF Len(s) >= width THEN s ELSE zero_pad(<< "0" >> \o s, width)

\* index_to_id(file_code, idx) = f"{file_code}_{idx+1:03d}"
index_to_id(file_code, idx) == file_code \o << "_" >> \o zero_pad(decimal(idx + 1), 3)

\* [t.strip() for t in str(field).split(',')] if field else []
tags_of(field) ==
    IF field # << >>
    THEN [i \in 1..Len(split(field, ",")) |-> strip(split(field, ",")[i])]
    ELSE << >>

\* One item of json_data.  The fields copied from the row as they are
\* (name, url, desc) and the category are left out.
item_of(file_code, i, row) ==
    [id |-> index_to_id(file_code, i),
     country |-> upper(file_code),
     tags |-> tags_of(row.Search_Tags)]

----------------------------------------------------------------------------
(* The sheets                                                               *)

SampleRows ==
    << [Country |-> S_SouthKorea, Search_Tags |-> T_abc],
       [Country |-> S_UnitedStates, Search_Tags |-> NaN],
       [Country |-> S_Global, Search_Tags |-> T_one],
       [Country |-> S_USA, Search_Tags |-> T_blank],
       [Country |-> S_wonderland, Search_Tags |-> T_abc],
       [Country |-> S_NewLand, Search_Tags |-> NaN],
       [Country |-> NaN, Search_Tags |-> T_one],
       [Country |-> S_PaddedAccent, Search_Tags |-> T_blank],
       [Country |-> S_index, Search_Tags |-> T_abc] >>

\* The sheets of at most MaxRows sample rows.  The rows of one country are
\* alike here, so a sheet and its permutations load the same groups, and one
\* sheet stands for all of them.
Sheets ==
    UNION { { [i \in 1..n |-> SampleRows[pick[i]]] :
                pick \in { f \in [1..n -> 1..Len(SampleRows)] :
                             \A i \in 1..(n - 1) : f[i] <= f[i + 1] } } :
            n \in 0..MaxRows }

AllColumns == {"Country", "Search Tags"}

\* A load that forgets fillna.
fillna_skipped(rows) == rows

\* df.fillna("")
fillna(rows) ==
    [i \in 1..Len(rows) |->
        [Country |-> IF rows[i].Country = NaN THEN << >> ELSE rows[i].Country,
         Search_Tags |->
             IF rows[i].Search_Tags = NaN THEN << >> ELSE rows[i].Search_Tags]]

\* The keys of df.groupby('Country'), which sorts them.
RECURSIVE sorted(_)
sorted(S) ==
    IF S = {} THEN << >>
    ELSE LET m == CHOOSE x \in S : \A y \in S \ {x} : StrLess(x, y)
         IN  << m >> \o sorted(S \ {m})

\* groupby leaves out the rows whose key is NaN (dropna=True).
group_keys(rows) == sorted({ rows[i].Country : i \in 1..Len(rows) } \ {NaN})

IsCountry(row, country_name) == row.Country = country_name

\* The rows of one group, in the order of the sheet.
RECURSIVE group_of(_, _)
group_of(rows, country_name) ==
    IF rows = << >> THEN << >>
    ELSE (IF IsCountry(Head(rows), country_name) THEN << Head(rows) >> ELSE << >>)
         \o group_of(Tail(rows), country_name)

----------------------------------------------------------------------------
(* main                                                                     *)

index_filename == "contributors/index.json"

relative_path_of(file_code) == "contributors/" \o Str(file_code) \o ".json"

\* An index a previous run left behind.
PreviousIndex ==
    << [country |-> S_Global, code |-> S_global, flag |-> UN_FLAG,
        path |-> "contributors/global.json", count |-> 1] >>

NoFiles == [p \in {} |-> << >>]

NoCall == [name |-> << >>, made |-> FALSE, notifier_calls |-> 0,
           info |-> [code |-> << >>, full_name |-> << >>, flag_url |-> "",
                     lookups |-> 0, warnings |-> << >>, sends |-> << >>,
                     raised |-> FALSE]]

\* open(path, 'w') and json.dump
write_file(files, path, data) ==
    [p \in DOMAIN files \cup {path} |-> IF p = path THEN data ELSE files[p]]

RECURSIVE total_count(_)
total_count(entries) ==
    IF entries = << >> THEN 0
    ELSE Head(entries).count + total_count(Tail(entries))

summary_of(entries) ==
    [kind |-> "summary", countries |-> Len(entries),
     total |-> total_count(entries), index_file |-> index_filename]

Init ==
    /\ webhook \in BOOLEAN
    /\ library_fault \in BOOLEAN
    /\ sheet \in Sheets
    /\ columns \in {AllColumns, {"Search Tags"}, {"Country"}}
    /\ pc = "load"
    /\ df = << >>
    /\ todo = << >>
    /\ index_data = << >>
    /\ fs \in {NoFiles, write_file(NoFiles, index_filename, PreviousIndex)}
    /\ dir = (fs # NoFiles)
    /\ writes = << >>
    /\ notified = << >>
    /\ httpRequests = 0
    /\ lastStatus = "none"
    /\ lastCall = NoCall

\* Lines 102-110: read_csv and fillna succeed, and the directory is made;
\* or they raise, which main logs before it returns.
LoadSheet ==
    /\ pc = "load"
    /\ \E fetched \in BOOLEAN :
          IF fetched
          THEN /\ df' = fillna(sheet)
               /\ dir' = TRUE
               /\ pc' = "groupby"
          ELSE /\ pc' = "aborted"
               /\ UNCHANGED << df, dir >>
    /\ UNCHANGED << webhook, library_fault, sheet, columns, todo, index_data, fs, writes,
                    notified, httpRequests, lastStatus, lastCall >>

\* Line 116: df.groupby('Country'), a KeyError when the sheet has no such
\* column.
GroupBy ==
    /\ pc = "groupby"
    /\ IF "Country" \in columns
       THEN /\ todo' = group_keys(df)
            /\ pc' = "loop"
       ELSE /\ pc' = "crashed"
            /\ UNCHANGED todo
    /\ UNCHANGED << webhook, library_fault, sheet, columns, df, index_data, dir, fs, writes,
                    notified, httpRequests, lastStatus, lastCall >>

\* json_data of one group
json_data_of(file_code, group) ==
    [i \in 1..Len(group) |-> item_of(file_code, i - 1, group[i])]

index_entry(info, json_data) ==
    [country |-> info.full_name, code |-> info.code, flag |-> info.flag_url,
     path |-> relative_path_of(info.code), count |-> Len(json_data)]

\* A loop that is left with its last group still to come.
loop_finished_one_early(rest) == Len(rest) <= 1

\* The for loop of line 116 has no group left.
loop_finished(rest) == rest = << >>

\* Lines 116-148, one pass of the loop.
ProcessGroup ==
    /\ pc = "loop"
    /\ ~loop_finished(todo)
    /\ \E transport \in Transports :
          LET country_name == Head(todo)
              group == group_of(df, country_name)
              info == get_country_info(country_name, library_fault, transport)
              json_data == json_data_of(info.code, group)
              relative_path == relative_path_of(info.code)
          IN  /\ notified' = notified \o info.warnings
              /\ lastCall' = [name |-> country_name, made |-> TRUE,
                              notifier_calls |-> Len(notified') - Len(notified),
                              info |-> info]
              /\ httpRequests' =
                     httpRequests
                     + Cardinality({ i \in 1..Len(info.sends) : info.sends[i].attempted })
              /\ lastStatus' =
                     IF info.sends = << >> THEN lastStatus ELSE info.sends[1].status
              /\ IF info.raised \/ "Search Tags" \notin columns
                 THEN /\ pc' = "crashed"
                      /\ UNCHANGED << todo, index_data, fs, writes >>
                 ELSE /\ fs' = write_file(fs, relative_path, json_data)
                      /\ writes' = Append(writes, [path |-> relative_path,
                                                   what |-> "country"])
                      /\ index_data' = Append(index_data, index_entry(info, json_data))
                      /\ todo' = Tail(todo)
                      /\ pc' = "loop"
    /\ UNCHANGED << webhook, library_fault, sheet, columns, df, dir >>

\* Lines 151-153
WriteIndex ==
    /\ pc = "loop"
    /\ loop_finished(todo)
    /\ fs' = write_file(fs, index_filename, index_data)
    /\ writes' = Append(writes, [path |-> index_filename, what |-> "index"])
    /\ pc' = "summary"
    /\ UNCHANGED << webhook, library_fault, sheet, columns, df, todo, index_data, dir,
                    notified, httpRequests, lastStatus, lastCall >>

\* Lines 158-166
SendSummary ==
    /\ pc = "summary"
    /\ \E transport \in Transports :
          LET message == summary_of(index_data)
              sent == send_slack_message(message, transport)
          IN  /\ notified' = Append(notified, message)
              /\ httpRequests' = httpRequests + (IF sent.attempted THEN 1 ELSE 0)
              /\ lastStatus' = sent.status
              /\ pc' = IF sent.raised THEN "crashed" ELSE "done"
    /\ UNCHANGED << webhook, library_fault, sheet, columns, df, todo, index_data, dir, fs,
                    writes, lastCall >>

Next ==
    \/ LoadSheet
    \/ GroupBy
    \/ ProcessGroup
    \/ WriteIndex
    \/ SendSummary

Spec == Init /\ [][Next]_vars

----------------------------------------------------------------------------
(* The vocabulary of the properties                                         *)

\* The distinct Country values of the sheet, an empty cell read as "".
DistinctCountries ==
    { IF sheet[i].Country = NaN THEN << >> ELSE sheet[i].Country :
        i \in 1..Len(sheet) }

\* The number of rows of the sheet whose Country is `name`.
RowsOf(name) ==
    Cardinality({ i \in 1..Len(sheet) :
        (IF sheet[i].Country = NaN THEN << >> ELSE sheet[i].Country) = name })

\* The standards lookup answers for `name`.
Recognized(name) ==
    /\ ~library_fault
    /\ \E c \in Countries :
          \E k \in {c.alpha_2, c.alpha_3, c.name} \cup c.other_names :
              lower(k) = lower(name)

\* Neither the exception table nor the standards lookup resolves `name`.
Unresolved(name) == name \notin DOMAIN exceptions /\ ~Recognized(name)

\* What each country of the sample rows is to resolve to.
Resolution(name) ==
    IF name = S_SouthKorea
    THEN [code |-> S_kr, full_name |-> S_SouthKorea,
          flag |-> "https://flagcdn.com/w40/kr.png", path |-> "contributors/kr.json"]
    ELSE IF name = S_UnitedStates \/ (name = S_USA /\ ~library_fault)
    THEN [code |-> S_us, full_name |-> S_UnitedStates,
          flag |-> "https://flagcdn.com/w40/us.png", path |-> "contributors/us.json"]
    ELSE IF name = S_USA
    THEN [code |-> << "u", "s", "a" >>, full_name |-> S_USA,
          flag |-> "https://flagcdn.com/w40/usa.png", path |-> "contributors/usa.json"]
    ELSE IF name = S_Global
    THEN [code |-> S_global, full_name |-> S_Global,
          flag |-> "https://flagcdn.com/w40/un.png", path |-> "contributors/global.json"]
    ELSE IF name = S_wonderland
    THEN [code |-> S_wonderland, full_name |-> S_wonderland,
          flag |-> "https://flagcdn.com/w40/wonderland.png",
          path |-> "contributors/wonderland.json"]
    ELSE IF name = S_NewLand
    THEN [code |-> S_new_land, full_name |-> S_NewLand,
          flag |-> "https://flagcdn.com/w40/new_land.png",
          path |-> "contributors/new_land.json"]
    ELSE IF name = S_PaddedAccent
    THEN [code |-> << "_", "e'" >>, full_name |-> S_PaddedAccent,
          flag |-> "https://flagcdn.com/w40/_e'.png", path |-> "contributors/_e'.json"]
    ELSE IF name = S_index
    THEN [code |-> S_index, full_name |-> S_index,
          flag |-> "https://flagcdn.com/w40/index.png",
          path |-> "contributors/index.json"]
    ELSE [code |-> << >>, full_name |-> << >>,
          flag |-> "https://flagcdn.com/w40/.png", path |-> "contributors/.json"]

\* The messages of one kind among those the notifier was called with.
IsWarning(m) == m.kind = "warning"

IsSummary(m) == m.kind = "summary"

Warnings == SelectSeq(notified, IsWarning)

Summaries == SelectSeq(notified, IsSummary)

\* The loop over the groups is under way and has groups left.
InLoop == pc = "loop" /\ todo # << >>

\* This run has written the index.
IndexWritten == \E i \in 1..Len(writes) : writes[i].what = "index"

----------------------------------------------------------------------------
(* C1 *)

\* C1: get_country_info resolves a name in three ordered steps.  A name that
\* is a key of the exception table gets the configured code and full name
\* and pycountry is not consulted; any other name that pycountry recognizes
\* gets the lowercased alpha-2 code and the name of the record found, "USA"
\* giving "us"; any other name takes the fallback.  The flag URL is the UN
\* flag for the code "global" and https://flagcdn.com/w40/{code}.png for
\* every other code.
C1_ResolutionChain ==
    lastCall.made =>
        LET name == lastCall.name
            info == lastCall.info
        IN  /\ name \in DOMAIN exceptions =>
                  /\ info.code = exceptions[name][1]
                  /\ info.full_name = exceptions[name][2]
                  /\ info.lookups = 0
                  /\ info.warnings = << >>
            /\ (name \notin DOMAIN exceptions /\ Recognized(name)) =>
                  /\ \E c \in Countries :
                        /\ \E k \in {c.alpha_2, c.alpha_3, c.name} \cup c.other_names :
                              lower(k) = lower(name)
                        /\ info.code = lower(c.alpha_2)
                        /\ info.full_name = c.name
                  /\ info.lookups = 1
                  /\ info.warnings = << >>
            /\ (name = S_USA /\ ~library_fault) =>
                  info.code = S_us /\ info.full_name = S_UnitedStates
            /\ Unresolved(name) => info.lookups = 1 /\ info.warnings # << >>
            /\ info.flag_url =
                  IF info.code = S_global
                  THEN "https://flagcdn.com/w40/un.png"
                  ELSE "https://flagcdn.com/w40/" \o Str(info.code) \o ".png"

\* "USA" has just been resolved by pycountry, after "Global" and "South
\* Korea" were resolved by the exception table.
C1_Witness ==
    /\ lastCall.made
    /\ lastCall.name = S_USA
    /\ lastCall.info.code = S_us
    /\ lastCall.info.flag_url = "https://flagcdn.com/w40/us.png"
    /\ \E i \in 1..Len(index_data) :
          index_data[i].code = S_global /\ index_data[i].flag = UN_FLAG
    /\ \E i \in 1..Len(index_data) :
          index_data[i].code = S_kr /\ index_data[i].country = S_SouthKorea

----------------------------------------------------------------------------
(* C2 *)

\* C2: for a name that neither the exception table nor pycountry resolves,
\* the code is the name lowercased with every space replaced by an
\* underscore, the full name is the name itself, and send_slack_message is
\* called exactly once during the call; for a name that either resolves it
\* is not called.
C2_Fallback ==
    lastCall.made =>
        LET name == lastCall.name
            info == lastCall.info
        IN  /\ Unresolved(name) =>
                  /\ info.code = replace(lower(name), " ", "_")
                  /\ info.full_name = name
                  /\ lastCall.notifier_calls = 1
                  /\ Len(info.sends) = 1
                  /\ info.warnings =
                        << [kind |-> "warning", name |-> name, code |-> info.code] >>
            /\ ~Unresolved(name) =>
                  lastCall.notifier_calls = 0 /\ info.sends = << >>
            /\ name = S_NewLand => info.code = S_new_land
            /\ name = S_wonderland => info.code = S_wonderland

\* "New Land" has just taken the fallback.
C2_Witness ==
    /\ lastCall.made
    /\ lastCall.name = S_NewLand
    /\ lastCall.info.code = S_new_land
    /\ lastCall.info.full_name = S_NewLand
    /\ lastCall.notifier_calls = 1

----------------------------------------------------------------------------
(* C3 *)

\* C3: get_country_info returns for every name and never raises.  When
\* pycountry fails, in whatever way, the call takes the fallback, and the
\* fallback completes with no webhook and with a failing transport alike:
\* no run stops in the resolver or in the notifier.
C3_NeverRaises ==
    /\ lastCall.made =>
          /\ ~lastCall.info.raised
          /\ (lastCall.name \notin DOMAIN exceptions /\ library_fault) =>
                /\ lastCall.info.code = replace(lower(lastCall.name), " ", "_")
                /\ lastCall.info.full_name = lastCall.name
    /\ (pc = "crashed" /\ lastCall.made) => "Search Tags" \notin columns

\* pycountry fails on "USA", the transport fails on the warning, and the run
\* goes on; the padded non-ASCII name was resolved before it.
C3_Witness ==
    /\ pc = "loop"
    /\ lastCall.made
    /\ library_fault
    /\ lastCall.name = S_USA
    /\ lastCall.info.code = << "u", "s", "a" >>
    /\ lastStatus = "error"
    /\ \E i \in 1..Len(index_data) :
          index_data[i].country = S_PaddedAccent /\ index_data[i].code = << "_", "e'" >>

----------------------------------------------------------------------------
(* C4 *)

\* C4: after a completed run the count of every index entry is the number
\* of records in the file its path names.
C4_CountIsFileLength ==
    pc = "done" =>
        \A i \in 1..Len(index_data) :
            index_data[i].count = Len(fs[index_data[i].path])

----------------------------------------------------------------------------
(* C5 *)

\* C5: no record has the tags [""]: a blank Search Tags field gives the
\* empty list.
C5_NoEmptyStringTag ==
    \A i \in 1..Len(writes) :
        (writes[i].what = "country" /\ ~IndexWritten) =>
            \A k \in 1..Len(fs[writes[i].path]) :
                fs[writes[i].path][k].tags # << << >> >>

----------------------------------------------------------------------------
(* C6 *)

----------------------------------------------------------------------------
(* C7 *)

\* C7: when the sheet cannot be fetched or is malformed, the run ends with
\* no file written and no notification sent.
C7_FailedLoadLeavesNoTrace ==
    (pc = "aborted" \/ pc = "crashed") =>
        /\ writes = << >>
        /\ notified = << >>
        /\ httpRequests = 0

----------------------------------------------------------------------------
(* C8 *)

\* The groups of the sheet in the order of the loop.
ExpectedKeys == sorted(DistinctCountries)

\* The index of the sheet, whatever the notifier does.
ExpectedIndex ==
    [i \in 1..Len(ExpectedKeys) |->
        [country |-> Resolution(ExpectedKeys[i]).full_name,
         code |-> Resolution(ExpectedKeys[i]).code,
         flag |-> Resolution(ExpectedKeys[i]).flag,
         path |-> Resolution(ExpectedKeys[i]).path,
         count |-> RowsOf(ExpectedKeys[i])]]

\* C8: the notifier never affects the run.  With every call delivered, with
\* calls failing in transport or answered by another status than 200, and
\* with no webhook, a run on a well-formed sheet completes and leaves the
\* same files and the same index, which the sheet alone decides; with no
\* webhook no HTTP request is attempted.
C8_NotifierNeverAffectsRun ==
    /\ pc # "crashed" \/ columns # AllColumns
    /\ ~webhook => httpRequests = 0
    /\ webhook => httpRequests = Len(notified)
    /\ pc = "done" =>
          /\ index_data = ExpectedIndex
          /\ DOMAIN fs =
                { ExpectedIndex[i].path : i \in 1..Len(ExpectedKeys) }
                \cup {index_filename}
          /\ fs[index_filename] = ExpectedIndex
          /\ \A i \in 1..Len(ExpectedKeys) :
                (/\ ExpectedIndex[i].path # index_filename
                 /\ \A j \in (i + 1)..Len(ExpectedKeys) :
                       ExpectedIndex[j].path # ExpectedIndex[i].path) =>
                    fs[ExpectedIndex[i].path] =
                        json_data_of(ExpectedIndex[i].code,
                                     group_of(fillna(sheet), ExpectedKeys[i]))

\* A run with a webhook has completed though the transport failed on the
\* summary, after a warning had been sent for a group.
C8_Witness ==
    /\ pc = "done"
    /\ webhook
    /\ lastStatus = "error"
    /\ Warnings # << >>
    /\ httpRequests >= 2
    /\ Len(index_data) >= 2
    /\ index_filename \in DOMAIN fs

----------------------------------------------------------------------------
(* C9 *)

RECURSIVE SumOfCounts(_)
SumOfCounts(entries) ==
    IF entries = << >> THEN 0
    ELSE entries[1].count + SumOfCounts(Tail(entries))

\* C9: a completed run on a sheet of N rows leaves an index with one entry
\* for each distinct Country value, the counts of which sum to N; the
\* notifier was called with one warning for each group that neither the
\* exception table nor pycountry resolves and with none for the others, and
\* then, once and last, with the summary, which reports that number of
\* countries and N.  No summary is sent before the run's end.
C9_EndToEnd ==
    /\ pc = "done" =>
          /\ Len(index_data) = Cardinality(DistinctCountries)
          /\ \A i \in 1..Len(index_data) :
                /\ index_data[i].code = Resolution(ExpectedKeys[i]).code
                /\ index_data[i].country = Resolution(ExpectedKeys[i]).full_name
                /\ index_data[i].count = RowsOf(ExpectedKeys[i])
          /\ SumOfCounts(index_data) = Len(sheet)
          /\ Len(Warnings) = Cardinality({ k \in DistinctCountries : Unresolved(k) })
          /\ \A k \in DistinctCountries :
                Cardinality({ i \in 1..Len(Warnings) : Warnings[i].name = k })
                    = IF Unresolved(k) THEN 1 ELSE 0
          /\ Len(Summaries) = 1
          /\ notified[Len(notified)] =
                [kind |-> "summary",
                 countries |-> Cardinality(DistinctCountries),
                 total |-> Len(sheet),
                 index_file |-> "contributors/index.json"]
    /\ pc # "done" => Summaries = << >>

\* The run on a sheet of "South Korea" and "wonderland" has completed: two
\* files of one record, an index of two entries and one warning.
C9_Witness ==
    /\ pc = "done"
    /\ DistinctCountries = {S_SouthKorea, S_wonderland}
    /\ Len(sheet) = 2
    /\ Len(index_data) = 2
    /\ Len(fs["contributors/kr.json"]) = 1
    /\ Len(fs["contributors/wonderland.json"]) = 1
    /\ Len(Warnings) = 1
    /\ Warnings[1].name = S_wonderland
    /\ Len(Summaries) = 1

----------------------------------------------------------------------------
(* C10 *)

\* C10: within one run no two groups resolve to the same code: no two index
\* entries share a code or a path, and no file is written twice.
C10_DistinctFiles ==
    /\ \A i, j \in 1..Len(index_data) :
          i # j =>
              /\ index_data[i].code # index_data[j].code
              /\ index_data[i].path # index_data[j].path
    /\ \A i, j \in 1..Len(writes) : i # j => writes[i].path # writes[j].path

====
